---- MODULE Spec2Model ----
(***************************************************************************)
(* State-machine model of the RSSI-to-position pipeline of                 *)
(* src/src/server.py: the MQTT thread running on_message, the processing   *)
(* thread running process_values, and the main thread running run().       *)
(*                                                                         *)
(* Spec and SpecBurst run the pipeline from the entry of run().  SpecCalc  *)
(* runs the module body of server.py and the functions of calc.py one call *)
(* at a time, SpecFilter one filter of filter.py fed one measurement again *)
(* and again, SpecPlot one Controller of controller.py plotting again and  *)
(* again.                                                                  *)
(*                                                                         *)
(* Floating-point quantities are kept in fixed point, in hundredths (FP).  *)
(* A float is a record [kind, v]: kind "num" with value v, or kind "nan".  *)
(***************************************************************************)
EXTENDS Integers, Sequences, FiniteSets, TLC

\* ------------------------------------------------------------------ bounds
\* Messages the broker delivers, well-formed or not (specification Spec).
MaxMsgs == 2
\* Estimation ticks the processing thread starts.
MaxTicks == 2
\* Messages one receiver gets in a burst (specification SpecBurst).
BurstLen == 11
\* Calls of get_distance on its own take an rssi from -20 dBm down to
\* -(20 + MaxAttenuation) dBm, in whole dB.
MaxAttenuation == 80
\* Calls of apply_kalman_filter on one filter with one measurement.
MaxApply == 20
\* Calls of Controller.plot on one Controller.
MaxPlots == 3

\* --------------------------------------------------------- program constants
FP == 10 * 10
UNCERTAINTY == 17
MAXLEN == 10
RECEIVER_1_TX_POWER == -45
RECEIVER_2_TX_POWER == -48
RECEIVER_3_TX_POWER == -43
PATH_LOSS_EXPONENT_X10 == 18
GRID_SCALE == 32
RECEIVER_1_POS == <<0, 220>>
RECEIVER_2_POS == <<320, 0>>
RECEIVER_3_POS == <<320, 310>>

Receivers == 1..3

\* ------------------------------------------------------------------- floats
Num(n) == [kind |-> "num", v |-> n]
NaN == [kind |-> "nan", v |-> 0]
IsNaN(f) == f.kind = "nan"

\* Python's int(): truncation towards zero of a / b (b > 0).
TruncDiv(a, b) == IF a >= 0 THEN a \div b ELSE -((-a) \div b)

Max(a, b) == IF a >= b THEN a ELSE b
Min(a, b) == IF a <= b THEN a ELSE b

\* --------------------------------------------------------- filter (filter.py)
\* filterpy's KalmanFilter state kept by this program: x (estimate), P (covariance).
\* Q is filterpy's default process noise eye(dim_x) = 1; P starts at eye * 1000.
initialize_kalman_filter == [x |-> Num(0), P |-> 1000 * FP]

\* kf.predict(): x = F x (F = 1), P = F P F' + Q (Q = 1).
Predict(k) == [x |-> k.x, P |-> k.P + 1 * FP]

\* kf.update(z): y = z - H x; S = H P H' + R; K = P H' / S; x = x + K y;
\* P = (I - K H) P (I - K H)' + K R K'.  z is a float (num or nan).
KalmanGain(k) == (k.P * FP) \div (k.P + UNCERTAINTY * FP)

\* Not the code, a variant to compare with: the gain term is subtracted.
UpdateXSubtractsGain(k, z) ==
    IF IsNaN(z) \/ IsNaN(k.x) THEN NaN
    ELSE Num(k.x.v - (KalmanGain(k) * (z.v - k.x.v)) \div FP)

UpdateX(k, z) ==
    IF IsNaN(z) \/ IsNaN(k.x) THEN NaN
    ELSE Num(k.x.v + (KalmanGain(k) * (z.v - k.x.v)) \div FP)

UpdateP(k) ==
    LET K == KalmanGain(k)
    IN  ((FP - K) * (FP - K) * k.P + K * K * UNCERTAINTY * FP) \div (FP * FP)

Update(k, z) == [x |-> UpdateX(k, z), P |-> UpdateP(k)]

\* ------------------------------------------------------------- calc (calc.py)
\* 10 ** (k / 18) in thousandths, k = 0..17.
Pow10Table ==
    <<1000, 1136, 1292, 1468, 1668, 1896, 2154, 2448, 2783,
      3162, 3594, 4084, 4642, 5275, 5995, 6813, 7743, 8799>>

RECURSIVE Pow10Int(_)
Pow10Int(n) == IF n = 0 THEN 1 ELSE 10 * Pow10Int(n - 1)

measured_power(node) ==
    IF node = 1 THEN RECEIVER_1_TX_POWER
    ELSE IF node = 2 THEN RECEIVER_2_TX_POWER
    ELSE RECEIVER_3_TX_POWER

\* 10 ** (k / 20) in thousandths, k = 0..19.
Pow10Table20 ==
    <<1000, 1122, 1259, 1413, 1585, 1778, 1995, 2239, 2512, 2818,
      3162, 3548, 3981, 4467, 5012, 5623, 6310, 7079, 7943, 8913>>

\* 10 ** (e / n) in millimetres, for n = 18 or 20 (ten times the exponent).
PowerOfTen(e, n) ==
    LET q == e \div n
        r == e % n
        t == IF n = PATH_LOSS_EXPONENT_X10 THEN Pow10Table ELSE Pow10Table20
    IN  IF q >= 0 THEN t[r + 1] * Pow10Int(q) ELSE t[r + 1] \div Pow10Int(-q)

\* What a Python float division by zero gives: ZeroDivisionError.
ZeroDivision == [kind |-> "raise", v |-> 0]

\* get_distance with the object's path_loss_exponent (ple, times ten):
\* 10 ** ((measured_power - rssi) / (10 * path_loss_exponent)), in millimetres;
\* the exponent's numerator is taken in whole dB.  A nan rssi gives a nan
\* distance; line 128 checks nothing about the exponent.
\* Not the code, a variant to compare with: rssi - measured_power in the exponent.
get_distance_rssi_minus_power(ple, rssi, node) ==
    IF IsNaN(rssi) THEN NaN
    ELSE LET e == (rssi.v - measured_power(node) * FP) \div FP
         IN  IF ple = 0 THEN ZeroDivision
             ELSE IF ple > 0 THEN Num(PowerOfTen(e, ple))
             ELSE Num(PowerOfTen(-e, -ple))

get_distance_with(ple, rssi, node) ==
    IF IsNaN(rssi) THEN NaN
    ELSE LET e == (measured_power(node) * FP - rssi.v) \div FP
         IN  IF ple = 0 THEN ZeroDivision
             ELSE IF ple > 0 THEN Num(PowerOfTen(e, ple))
             ELSE Num(PowerOfTen(-e, -ple))

\* get_distance of locationEstimator, built with PATH_LOSS_EXPONENT.
get_distance(rssi, node) == get_distance_with(PATH_LOSS_EXPONENT_X10, rssi, node)

\* __scale_coordinates: int((x / initial_x) * scale), clamped to [0, scale - 1].
initial_x == Max(RECEIVER_1_POS[1], Max(RECEIVER_2_POS[1], RECEIVER_3_POS[1]))
initial_y == Max(RECEIVER_1_POS[2], Max(RECEIVER_2_POS[2], RECEIVER_3_POS[2]))

Clamp(v) == Max(0, Min(v, GRID_SCALE - 1))

scale_coordinates(x, y) ==
    << Clamp(TruncDiv(x * GRID_SCALE, initial_x)),
       Clamp(TruncDiv(y * GRID_SCALE, initial_y)) >>

\* __init__, lines 29-41: the arguments are stored as they come.
TrilaterationController_init(bps, ple) == [bp |-> bps, ple |-> ple]

\* __scale_coordinates for an object with base stations bp: the divisions of
\* lines 146-147 raise ZeroDivisionError when the largest x or the largest y of
\* the base stations is 0.
MaxCoordinate(bp, k) == Max(bp[1][k], Max(bp[2][k], bp[3][k]))

ScaleAxis(v, bound) ==
    Clamp(IF bound > 0 THEN TruncDiv(v * GRID_SCALE, bound)
                       ELSE TruncDiv(-(v * GRID_SCALE), -bound))

scale_coordinates_with(bp, x, y) ==
    IF MaxCoordinate(bp, 1) = 0 \/ MaxCoordinate(bp, 2) = 0
    THEN [ok |-> FALSE, pos |-> <<0, 0>>]
    ELSE [ok |-> TRUE, pos |-> << ScaleAxis(x, MaxCoordinate(bp, 1)),
                                 ScaleAxis(y, MaxCoordinate(bp, 2)) >>]

\* scipy's least_squares is outside the repository: the points it may return
\* (hundredths of a metre) are drawn from this set.  It raises ValueError when
\* the residuals at the initial guess are not finite.
SolverOutputs == { <<5, 210>>, <<-40, 500>> }

Raised == [ok |-> FALSE, pos |-> <<0, 0>>]
Returned(p) == [ok |-> TRUE, pos |-> p]

\* trilaterate called on its own, with lengths in tenths of a millimetre.
\* equations(guess) at the initial guess (0, 0, 0): x_i^2 + y_i^2 - d_i^2.
ResidualAtGuess(p, d) == p[1] * p[1] + p[2] * p[2] - d * d

\* The gradient J' f of the cost at the initial guess: row i of the Jacobian of
\* equations there is (-2 x_i, -2 y_i, 2 d_i).
GradientAtGuess(bp, d) ==
    LET f == [i \in 1..3 |-> ResidualAtGuess(bp[i], d[i])]
    IN  << -2 * (bp[1][1] * f[1] + bp[2][1] * f[2] + bp[3][1] * f[3]),
           -2 * (bp[1][2] * f[1] + bp[2][2] * f[2] + bp[3][2] * f[3]),
           2 * (d[1] * f[1] + d[2] * f[2] + d[3] * f[3]) >>

NormInf(g) == Max(Max(g[1], -g[1]), Max(Max(g[2], -g[2]), Max(g[3], -g[3])))

\* least_squares is called with its defaults: gtol = 1e-8, on the numbers as
\* they are (metres: 1e-8 m^3 is 10^4 in these units).
Gtol == Pow10Int(4)

\* least_squares(equations, initial_guess), results.x[0], results.x[1]: before
\* its first step the solver tests the norm of the gradient against gtol and
\* returns the initial guess when it is below; else it iterates, and reached is
\* where the iteration ends.
trilaterate_from_guess(bp, d, reached) ==
    IF NormInf(GradientAtGuess(bp, d)) < Gtol THEN <<0, 0>> ELSE reached

\* trilaterate(d1, d2, d3): the outcomes of the solver call.
trilaterate(d1, d2, d3) ==
    IF IsNaN(d1) \/ IsNaN(d2) \/ IsNaN(d3) THEN { Raised }
    ELSE { Returned(p) : p \in SolverOutputs }

\* get_position(rssi_1, rssi_2, rssi_3): the outcomes, scaled to the grid.
get_position(rssi_1, rssi_2, rssi_3) ==
    LET sols == trilaterate(get_distance(rssi_1, 1), get_distance(rssi_2, 2),
                            get_distance(rssi_3, 3))
    IN  { IF s.ok THEN Returned(scale_coordinates(s.pos[1], s.pos[2])) ELSE Raised
          : s \in sols }

\* ------------------------------------------------- controller (controller.py)
\* Controller.__init__: the started flag is False; sent is what the Bluetooth
\* link has accepted so far, in order.
DefaultBeacons == << <<0, 0>>, <<0, 31>>, <<31, 0>> >>

Controller_init == [started |-> FALSE, sent |-> << >>]

\* self.__bt.send(...) returns, or raises what the link raises.
SendOutcomes == { "sent", "raised" }

ModeOnCommand == [cmd |-> "mode_on", pos |-> << >>]
ImagePayload(p) == [cmd |-> "image", pos |-> p]

\* plot, lines 75-77: if not self.__started: await self.__image_mode_on();
\* self.__started = True.  o is the outcome of the send; when it raises the
\* assignment of line 77 is not reached.
\* Not the code, a variant to compare with: the flag is set before the await.
plot_ensure_started_flag_first(c, o) ==
    IF c.started THEN c
    ELSE IF o = "sent" THEN [started |-> TRUE, sent |-> Append(c.sent, ModeOnCommand)]
    ELSE [c EXCEPT !.started = TRUE]

plot_ensure_started(c, o) ==
    IF c.started THEN c
    ELSE IF o = "sent" THEN [started |-> TRUE, sent |-> Append(c.sent, ModeOnCommand)]
    ELSE c

\* plot, lines 80-82: await self.__bt.send(generate_image_payload((x, y), ...)).
plot_send_image(c, p, o) ==
    IF o = "sent" THEN [c EXCEPT !.sent = Append(@, ImagePayload(p))] ELSE c

\* ------------------------------------------- server.py's module body (startup)
\* The names calc.py defines at module level, and the ones controller.py
\* (line 7) imports from it.
CalcModuleNames == { "least_squares", "TrilaterationController" }
ControllerImportsFromCalc == { "get_position" }

\* The attributes of a TrilaterationController object: a method whose name
\* starts with two underscores is stored under its mangled name.
TrilaterationControllerAttributes ==
    { "bp_1", "bp_2", "bp_3", "scale", "measured_power_1", "measured_power_2",
      "measured_power_3", "path_loss_exponent", "get_position", "trilaterate",
      "get_distance", "_TrilaterationController__scale_coordinates" }

\* What lines 127-131 of server.py pass to bt.set_beacons.
ScaledBeacons ==
    << scale_coordinates(RECEIVER_1_POS[1], RECEIVER_1_POS[2]),
       scale_coordinates(RECEIVER_2_POS[1], RECEIVER_2_POS[2]),
       scale_coordinates(RECEIVER_3_POS[1], RECEIVER_3_POS[2]) >>

\* The module body from its imports (line 14, from controller import
\* Controller) to the call of run(): where it ends, with the beacons of bt.
module_body ==
    IF ~(ControllerImportsFromCalc \subseteq CalcModuleNames)
    THEN [pc |-> "ImportError", beacons |-> << >>]
    ELSE IF "scale_coordinates" \notin TrilaterationControllerAttributes
    THEN [pc |-> "AttributeError", beacons |-> DefaultBeacons]
    ELSE [pc |-> "run", beacons |-> ScaledBeacons]

\* ------------------------------------------------------------------- state
VARIABLES
    kf,            \* kf1, kf2, kf3: [x, P] per receiver
    receiver,      \* receiver_1..3: the deques, oldest entry first
    stop_threads,  \* the stop flag
    client_state,  \* the MQTT client: "new", "connected", "disconnecting"
    bt_connected,  \* the Bluetooth display's connection
    main_pc,       \* run(): the main thread's position
    bound,         \* run()'s locals that are assigned
    exit_how,      \* how the process ended ("" while it runs)
    mqtt_pc,       \* the MQTT thread's position in loop_forever / on_message
    response,      \* on_message's local: the message being handled
    proc_pc,       \* the processing thread's position in process_values
    rssi_loc,      \* process_values' locals rssi_1, rssi_2, rssi_3
    position,      \* process_values' local position
    plotted,       \* the positions sent to the display, in order
    ticks,         \* ticks the processing thread has started
    env,           \* the broker: messages still to deliver; each sender's clock
    arrived,       \* history: every entry ever appended to receiver_i
    ops,           \* history: filter operations of the handler in progress
    bt,            \* the Controller object bt: its started flag, what it has sent
    startup,       \* server.py's module body: its position, the beacons it set
    call           \* a function called on its own: its arguments and its result

vars == << kf, receiver, stop_threads, client_state, bt_connected, main_pc, bound,
           exit_how, mqtt_pc, response, proc_pc, rssi_loc, position,
           plotted, ticks, env, arrived, ops, bt, startup, call >>

main_vars == << main_pc, bound, exit_how >>
mqtt_vars == << mqtt_pc, response, ops >>
unit_vars == << startup, call >>
proc_vars == << proc_pc, rssi_loc, position, plotted, ticks >>

\* The test entries server.py puts in the deques at import (time 0).
TestEntry == [time |-> 0, rssi |-> Num(-42 * FP), filtered_rssi |-> Num(-42 * FP)]

NoResponse == [topic |-> 0, time |-> 0, rssi |-> [kind |-> "missing", v |-> 0],
               filtered_rssi |-> NaN]

\* No function is being called on its own.
NoCall == [op |-> "none"]

\* run() has been entered, the module body taken as done as it is written.
Entered == [pc |-> "run", beacons |-> ScaledBeacons]

InitCommon ==
    /\ kf = [i \in Receivers |-> initialize_kalman_filter]
    /\ receiver = [i \in Receivers |-> << TestEntry >>]
    /\ stop_threads = FALSE
    /\ client_state = "new"
    /\ bt_connected = TRUE
    /\ main_pc = "connect"
    /\ bound = {}
    /\ exit_how = ""
    /\ mqtt_pc = "not_started"
    /\ response = NoResponse
    /\ proc_pc = "not_started"
    /\ rssi_loc = << NaN, NaN, NaN >>
    /\ position = << 0, 0 >>
    /\ plotted = << >>
    /\ ticks = 0
    /\ arrived = [i \in Receivers |-> << TestEntry >>]
    /\ ops = << >>
    /\ bt = Controller_init

\* MaxMsgs messages arrive: from any receiver with an rssi of -60 dBm or a JSON
\* NaN, or malformed.
Init ==
    /\ InitCommon
    /\ startup = Entered
    /\ call = NoCall
    /\ env = [left |-> MaxMsgs, senders |-> Receivers, malformed |-> TRUE,
              values |-> { Num(-60 * FP), NaN }, clock |-> [i \in Receivers |-> 1]]

\* Receiver 1 alone sends BurstLen messages, all with an rssi of -60 dBm.
InitBurst ==
    /\ InitCommon
    /\ startup = Entered
    /\ call = NoCall
    /\ env = [left |-> BurstLen, senders |-> { 1 }, malformed |-> FALSE,
              values |-> { Num(-60 * FP) }, clock |-> [i \in Receivers |-> 1]]

Alive == main_pc # "exited"

\* on_message (lines 93-115) takes no lock and waits for nothing, and paho's
\* loop thread owns no state the other threads hold: while the process lives a
\* step of the handler can be taken whatever the other threads are doing.
\* Not the code, a variant to compare with: the handler waits for the tick to end.
OnMessageBlockedByTick ==
    Alive /\ proc_pc \notin { "read1", "read2", "read3", "solve", "plot", "plot_image",
                              "sleep" }

OnMessageRuns == Alive

\* ------------------------------------------------- the broker's messages
Str == [kind |-> "str", v |-> 0]
Missing == [kind |-> "missing", v |-> 0]
OtherTopic == 4

\* Well-formed messages: a known topic, a JSON object with a time in the
\* expected format and a numeric rssi.
GoodMessages ==
    { [topic |-> t, json |-> TRUE, timeok |-> TRUE, rssi |-> r]
      : t \in IF env.left > 0 THEN env.senders ELSE {}, r \in env.values }

\* Malformed messages: another topic, a payload that is not JSON, a time that is
\* absent or ill-formatted, an rssi that is absent or not a number.
BadMessages ==
    IF env.left = 0 \/ ~env.malformed THEN {}
    ELSE { [topic |-> OtherTopic, json |-> TRUE, timeok |-> TRUE, rssi |-> Num(-60 * FP)] }
         \cup { [topic |-> t, json |-> FALSE, timeok |-> FALSE, rssi |-> Missing]
                : t \in Receivers }
         \cup { [topic |-> t, json |-> TRUE, timeok |-> FALSE, rssi |-> Num(-60 * FP)]
                : t \in Receivers }
         \cup { [topic |-> t, json |-> TRUE, timeok |-> TRUE, rssi |-> r]
                : t \in Receivers, r \in { Missing, Str } }

WellFormed(m) ==
    m.topic \in Receivers /\ m.json /\ m.timeok /\ m.rssi.kind \in { "num", "nan" }

Deliver(m) ==
    IF WellFormed(m)
    THEN [env EXCEPT !.left = @ - 1, !.clock[m.topic] = @ + 1]
    ELSE [env EXCEPT !.left = @ - 1]

\* ------------------------------------------------ the MQTT thread: on_message
\* The filter and the deque on_message uses for a topic (kf1 and receiver_1 for
\* "receivers/1", and so on).
\* Not the code, a variant to compare with: receivers/2 filtered with kf1.
FilterOfWrongBranch(topic) == IF topic = 2 THEN 1 ELSE topic
FilterOf(topic) == topic

HistoryOf(topic) == topic

\* apply_kalman_filter's calls on the filter, in order.
\* Not the code, a variant to compare with: two predicts before the update.
apply_kalman_filter_twice_predicted == << "predict", "predict", "update" >>
apply_kalman_filter == << "predict", "update" >>

\* deque(maxlen=10).append: the oldest entry goes when the deque is full.
\* Not the code, a variant to compare with: a full deque drops its newest entry.
DequeAppendDropsNewest(d, e) ==
    IF Len(d) >= MAXLEN THEN Append(SubSeq(d, 1, Len(d) - 1), e) ELSE Append(d, e)
DequeAppend(d, e) ==
    IF Len(d) >= MAXLEN THEN Append(Tail(d), e) ELSE Append(d, e)

\* Lines 94-112 up to the call of apply_kalman_filter: decode, parse, convert
\* the time, pick the branch of the topic, read response["rssi"].  A failure is
\* logged and the handler returns.
OnMessageBegin(m) ==
    /\ OnMessageRuns
    /\ mqtt_pc = "idle"
    /\ client_state = "connected"
    /\ env' = Deliver(m)
    /\ ops' = << >>
    /\ IF m.json /\ m.timeok /\ m.topic \in Receivers /\ m.rssi.kind # "missing"
       THEN /\ response' = [topic |-> m.topic, time |-> env.clock[m.topic], rssi |-> m.rssi,
                            filtered_rssi |-> NaN]
            /\ mqtt_pc' = "filter"
       ELSE /\ response' = NoResponse
            /\ mqtt_pc' = "idle"
    /\ UNCHANGED << kf, receiver, arrived, stop_threads, client_state, bt_connected,
                    main_vars, proc_vars, bt, unit_vars >>

\* One call of apply_kalman_filter on the topic's filter: kf.predict(), or
\* kf.update(np.array([new_value])), which raises on a value that is no number;
\* the handler's except clause logs it and returns.  After the last call kf.x is
\* stored in response["filtered_rssi"].
OnMessageFilter ==
    /\ OnMessageRuns
    /\ mqtt_pc = "filter"
    /\ LET i == FilterOf(response.topic)
           op == apply_kalman_filter[Len(ops) + 1]
           last == Len(ops) + 1 = Len(apply_kalman_filter)
       IN  IF op = "predict"
           THEN /\ kf' = [kf EXCEPT ![i] = Predict(@)]
                /\ ops' = Append(ops, op)
                /\ mqtt_pc' = IF last THEN "append" ELSE "filter"
                /\ response' = IF last THEN [response EXCEPT !.filtered_rssi = kf'[i].x]
                                       ELSE response
           ELSE IF response.rssi.kind = "str"
           THEN /\ mqtt_pc' = "idle"
                /\ response' = NoResponse
                /\ UNCHANGED << kf, ops >>
           ELSE /\ kf' = [kf EXCEPT ![i] = Update(@, response.rssi)]
                /\ ops' = Append(ops, op)
                /\ mqtt_pc' = IF last THEN "append" ELSE "filter"
                /\ response' = IF last THEN [response EXCEPT !.filtered_rssi = kf'[i].x]
                                       ELSE response
    /\ UNCHANGED << receiver, arrived, stop_threads, client_state, bt_connected,
                    main_vars, proc_vars, env, bt, unit_vars >>

\* receiver_i.append(response)
OnMessageAppend ==
    /\ OnMessageRuns
    /\ mqtt_pc = "append"
    /\ LET i == HistoryOf(response.topic)
           e == [time |-> response.time, rssi |-> response.rssi,
                 filtered_rssi |-> response.filtered_rssi]
       IN  /\ receiver' = [receiver EXCEPT ![i] = DequeAppend(@, e)]
           /\ arrived' = [arrived EXCEPT ![i] = Append(@, e)]
    /\ mqtt_pc' = "idle"
    /\ response' = NoResponse
    /\ UNCHANGED << kf, ops, stop_threads, client_state, bt_connected, main_vars,
                    proc_vars, env, bt, unit_vars >>

\* client.loop_forever returns once client.disconnect() has been called.
MqttLoopExit ==
    /\ Alive
    /\ mqtt_pc = "idle"
    /\ client_state = "disconnecting"
    /\ mqtt_pc' = "stopped"
    /\ UNCHANGED << kf, receiver, arrived, stop_threads, client_state, bt_connected,
                    main_vars, response, ops, proc_vars, env, bt, unit_vars >>

\* ------------------------------------- the processing thread: process_values
Latest(i) == receiver[i][Len(receiver[i])]

AllHaveData == \A i \in Receivers : Len(receiver[i]) > 0

InTick == proc_pc \in { "read1", "read2", "read3", "solve", "plot", "plot_image" }

\* Lines 156-169: the loop test, the log of the latest values, and the test
\* for data; without data the thread sleeps 5 s and tries again.
ProcLoopHead ==
    /\ Alive
    /\ proc_pc = "while"
    /\ stop_threads \/ ticks < MaxTicks
    /\ IF stop_threads
       THEN proc_pc' = "done" /\ ticks' = ticks
       ELSE IF AllHaveData
       THEN proc_pc' = "read1" /\ ticks' = ticks + 1
       ELSE proc_pc' = "sleep" /\ ticks' = ticks
    /\ UNCHANGED << kf, receiver, arrived, stop_threads, client_state, bt_connected,
                    main_vars, mqtt_vars, rssi_loc, position, plotted, env, bt, unit_vars >>

\* Lines 171-173: rssi_i = receiver_i[-1]["filtered_rssi"][0]
ProcRead(i) ==
    /\ Alive
    /\ proc_pc = IF i = 1 THEN "read1" ELSE IF i = 2 THEN "read2" ELSE "read3"
    /\ rssi_loc' = [rssi_loc EXCEPT ![i] = Latest(i).filtered_rssi]
    /\ proc_pc' = IF i = 1 THEN "read2" ELSE IF i = 2 THEN "read3" ELSE "solve"
    /\ UNCHANGED << kf, receiver, arrived, stop_threads, client_state, bt_connected,
                    main_vars, mqtt_vars, position, plotted, ticks, env, bt, unit_vars >>

\* Line 176: position = locationEstimator.get_position(rssi_1, rssi_2, rssi_3).
\* Nothing in process_values catches an exception: one ends the thread.
ProcSolve ==
    /\ Alive
    /\ proc_pc = "solve"
    /\ \E out \in get_position(rssi_loc[1], rssi_loc[2], rssi_loc[3]) :
          IF out.ok
          THEN position' = out.pos /\ proc_pc' = "plot"
          ELSE position' = position /\ proc_pc' = "dead"
    /\ UNCHANGED << kf, receiver, arrived, stop_threads, client_state, bt_connected,
                    main_vars, mqtt_vars, rssi_loc, plotted, ticks, env, bt, unit_vars >>

\* Lines 180-181: loop.run_until_complete(update_plot(position[0], position[1])),
\* which awaits bt.plot(x, y); this is plot up to its first send: the image-mode
\* command when the display was not started, else the image.  Nothing in
\* process_values catches what a send raises: it ends the thread.  rssi_1..3
\* are not read again before lines 171-173 assign them: the model forgets them
\* here.
ProcPlot ==
    /\ Alive
    /\ proc_pc = "plot"
    /\ \E o \in SendOutcomes :
          IF ~bt.started
          THEN /\ bt' = plot_ensure_started(bt, o)
               /\ plotted' = plotted
               /\ proc_pc' = IF o = "sent" THEN "plot_image" ELSE "dead"
          ELSE /\ bt' = plot_send_image(bt, position, o)
               /\ plotted' = IF o = "sent" THEN Append(plotted, position) ELSE plotted
               /\ proc_pc' = IF o = "sent" THEN "sleep" ELSE "dead"
    /\ rssi_loc' = << NaN, NaN, NaN >>
    /\ UNCHANGED << kf, receiver, arrived, stop_threads, client_state, bt_connected,
                    main_vars, mqtt_vars, position, ticks, env, unit_vars >>

\* bt.plot(x, y), lines 80-82, after the image-mode command went out: the image.
ProcPlotImage ==
    /\ Alive
    /\ proc_pc = "plot_image"
    /\ \E o \in SendOutcomes :
          /\ bt' = plot_send_image(bt, position, o)
          /\ plotted' = IF o = "sent" THEN Append(plotted, position) ELSE plotted
          /\ proc_pc' = IF o = "sent" THEN "sleep" ELSE "dead"
    /\ UNCHANGED << kf, receiver, arrived, stop_threads, client_state, bt_connected,
                    main_vars, mqtt_vars, rssi_loc, position, ticks, env, unit_vars >>

\* Line 183 (or 168): time.sleep returns.
ProcSleep ==
    /\ Alive
    /\ proc_pc = "sleep"
    /\ proc_pc' = "while"
    /\ UNCHANGED << kf, receiver, arrived, stop_threads, client_state, bt_connected,
                    main_vars, mqtt_vars, rssi_loc, position, plotted, ticks, env, bt, unit_vars >>

\* ------------------------------------------------------ the main thread: run
\* get_updated_data: the three distances from the latest filtered values, and
\* the solver's point for them; the solver may raise.
get_updated_data ==
    LET d == << get_distance(Latest(1).filtered_rssi, 1),
                get_distance(Latest(2).filtered_rssi, 2),
                get_distance(Latest(3).filtered_rssi, 3) >>
    IN  [base_stations |-> d, target |-> trilaterate(d[1], d[2], d[3])]

Exit(how) ==
    /\ main_pc' = "exited"
    /\ exit_how' = how

\* Line 230: client.connect(host, port) returns.
MainConnect ==
    /\ main_pc = "connect"
    /\ main_pc' = "create_proc"
    /\ client_state' = "connected"
    /\ UNCHANGED << kf, receiver, arrived, stop_threads, bt_connected, bound, exit_how,
                    mqtt_vars, proc_vars, env, bt, unit_vars >>

\* Line 230: client.connect raises (the broker cannot be reached): the
\* exception leaves run() and the process ends.
MainConnectFails ==
    /\ main_pc = "connect"
    /\ Exit("connect_error")
    /\ UNCHANGED << kf, receiver, arrived, stop_threads, client_state, bt_connected,
                    bound, mqtt_vars, proc_vars, env, bt, unit_vars >>

\* Line 234: processing_thread = threading.Thread(...)
MainCreateProc ==
    /\ main_pc = "create_proc"
    /\ bound' = bound \cup { "processing_thread" }
    /\ main_pc' = "start_proc"
    /\ UNCHANGED << kf, receiver, arrived, stop_threads, client_state, bt_connected,
                    exit_how, mqtt_vars, proc_vars, env, bt, unit_vars >>

\* Line 235: processing_thread.start()
MainStartProc ==
    /\ main_pc = "start_proc"
    /\ proc_pc' = "while"
    /\ main_pc' = "create_mqtt"
    /\ UNCHANGED << kf, receiver, arrived, stop_threads, client_state, bt_connected,
                    bound, exit_how, mqtt_vars, rssi_loc, position, plotted,
                    ticks, env, bt, unit_vars >>

\* Line 239: mqtt_thread = threading.Thread(target=client.loop_forever, ...)
MainCreateMqtt ==
    /\ main_pc = "create_mqtt"
    /\ bound' = bound \cup { "mqtt_thread" }
    /\ main_pc' = "start_mqtt"
    /\ UNCHANGED << kf, receiver, arrived, stop_threads, client_state, bt_connected,
                    exit_how, mqtt_vars, proc_vars, env, bt, unit_vars >>

\* Line 240: mqtt_thread.start()
MainStartMqtt ==
    /\ main_pc = "start_mqtt"
    /\ mqtt_pc' = "idle"
    /\ main_pc' = "run_graph"
    /\ UNCHANGED << kf, receiver, arrived, stop_threads, client_state, bt_connected,
                    bound, exit_how, response, ops, proc_vars, env, bt, unit_vars >>

\* Lines 247-251 and 217-222: set_on_close, then run_graph evaluates
\* get_updated_data()[0] and enters animate (plt.show).  An exception of the
\* solver is no KeyboardInterrupt: it leaves run() and the process ends.
MainRunGraph ==
    /\ main_pc = "run_graph"
    /\ IF Raised \in get_updated_data.target
       THEN Exit("graph_error")
       ELSE main_pc' = "show" /\ exit_how' = exit_how
    /\ UNCHANGED << kf, receiver, arrived, stop_threads, client_state, bt_connected,
                    bound, mqtt_vars, proc_vars, env, bt, unit_vars >>

\* graph.py update(i): the animation timer calls get_updated_data(), which
\* reads the deques; update unpacks five values from the pair it returns, so the
\* call ends in an exception inside the timer callback and nothing is stored.
GraphRefresh ==
    /\ main_pc = "show"
    /\ \A i \in Receivers : get_updated_data.base_stations[i].kind \in { "num", "nan" }
    /\ UNCHANGED vars

\* The graph window is closed: on_close logs, plt.show returns, run_graph and
\* run() return, and the process ends with its daemon threads.
GraphClose ==
    /\ main_pc = "show"
    /\ Exit("returned")
    /\ UNCHANGED << kf, receiver, arrived, stop_threads, client_state, bt_connected,
                    bound, mqtt_vars, proc_vars, env, bt, unit_vars >>

\* KeyboardInterrupt is raised in the main thread inside run()'s try block.
KeyboardInterrupt ==
    /\ main_pc \in { "connect", "create_proc", "start_proc", "create_mqtt",
                     "start_mqtt", "run_graph", "show" }
    /\ main_pc' = "h_stop"
    /\ UNCHANGED << kf, receiver, arrived, stop_threads, client_state, bt_connected,
                    bound, exit_how, mqtt_vars, proc_vars, env, bt, unit_vars >>

\* Line 257: stop_threads = True
HandlerStop ==
    /\ main_pc = "h_stop"
    /\ stop_threads' = TRUE
    /\ main_pc' = "h_disconnect"
    /\ UNCHANGED << kf, receiver, arrived, client_state, bt_connected, bound, exit_how,
                    mqtt_vars, proc_vars, env, bt, unit_vars >>

\* Line 258: client.disconnect()
HandlerDisconnect ==
    /\ main_pc = "h_disconnect"
    /\ client_state' = "disconnecting"
    /\ main_pc' = "h_join_proc"
    /\ UNCHANGED << kf, receiver, arrived, stop_threads, bt_connected, bound, exit_how,
                    mqtt_vars, proc_vars, env, bt, unit_vars >>

\* thread.join(): UnboundLocalError when the local was never assigned,
\* RuntimeError when the thread was never started; else it waits for the thread.
\* Not the code, a variant to compare with: join returns at once.
JoinOutcomeNoWait(name, pc, ended) ==
    IF name \notin bound \/ pc = "not_started" THEN "raises" ELSE "returns"

JoinOutcome(name, pc, ended) ==
    IF name \notin bound \/ pc = "not_started" THEN "raises"
    ELSE IF pc \in ended THEN "returns"
    ELSE "waits"

\* Line 261: processing_thread.join()
HandlerJoinProc ==
    /\ main_pc = "h_join_proc"
    /\ LET o == JoinOutcome("processing_thread", proc_pc, { "done", "dead" })
       IN  /\ o # "waits"
           /\ IF o = "raises" THEN Exit("handler_error")
              ELSE main_pc' = "h_join_mqtt" /\ exit_how' = exit_how
    /\ UNCHANGED << kf, receiver, arrived, stop_threads, client_state, bt_connected,
                    bound, mqtt_vars, proc_vars, env, bt, unit_vars >>

\* Line 264: mqtt_thread.join()
HandlerJoinMqtt ==
    /\ main_pc = "h_join_mqtt"
    /\ LET o == JoinOutcome("mqtt_thread", mqtt_pc, { "stopped" })
       IN  /\ o # "waits"
           /\ IF o = "raises" THEN Exit("handler_error")
              ELSE main_pc' = "h_bt" /\ exit_how' = exit_how
    /\ UNCHANGED << kf, receiver, arrived, stop_threads, client_state, bt_connected,
                    bound, mqtt_vars, proc_vars, env, bt, unit_vars >>

\* Lines 268-273: loop.run_until_complete(bt.disconnect()), then exit(0).
HandlerBtExit ==
    /\ main_pc = "h_bt"
    /\ bt_connected' = FALSE
    /\ Exit("exit0")
    /\ UNCHANGED << kf, receiver, arrived, stop_threads, client_state, bound,
                    mqtt_vars, proc_vars, env, bt, unit_vars >>

\* ------------------------------------------------------------ specifications
Next ==
    \/ \E m \in GoodMessages \cup BadMessages : OnMessageBegin(m)
    \/ OnMessageFilter
    \/ OnMessageAppend
    \/ MqttLoopExit
    \/ ProcLoopHead
    \/ \E i \in Receivers : ProcRead(i)
    \/ ProcSolve
    \/ ProcPlot
    \/ ProcPlotImage
    \/ ProcSleep
    \/ MainConnect
    \/ MainConnectFails
    \/ MainCreateProc
    \/ MainStartProc
    \/ MainCreateMqtt
    \/ MainStartMqtt
    \/ MainRunGraph
    \/ GraphRefresh
    \/ GraphClose
    \/ KeyboardInterrupt
    \/ HandlerStop
    \/ HandlerDisconnect
    \/ HandlerJoinProc
    \/ HandlerJoinMqtt
    \/ HandlerBtExit

Spec == Init /\ [][Next]_vars

SpecBurst == InitBurst /\ [][Next]_vars

\* ------------------------------------------- calc.py, function by function
\* The module body has not run and no TrilaterationController is built.
\* No broker is connected: nothing is delivered.
NoBroker == [left |-> 0, senders |-> {}, malformed |-> FALSE, values |-> {},
             clock |-> [i \in Receivers |-> 1]]

InitCalc ==
    /\ InitCommon
    /\ env = NoBroker
    /\ startup = [pc |-> "import", beacons |-> << >>]
    /\ call = NoCall

pipeline_vars ==
    << kf, receiver, arrived, stop_threads, client_state, bt_connected, main_vars,
       mqtt_vars, proc_vars, env >>

\* Arguments of the calls: base stations (in hundredths of a metre: the
\* deployment's, three with no positive x, three with negative coordinates
\* only), exponents times ten, rssi levels, solver outputs.
BaseStationInputs ==
    { << RECEIVER_1_POS, RECEIVER_2_POS, RECEIVER_3_POS >>,
      << <<0, 0>>, <<0, 300>>, <<-200, 100>> >>,
      << <<-300, -300>>, <<-100, -200>>, <<-200, -100>> >> }

ExponentInputs == { -18, 0, 18, 20 }

RssiInputs == { Num((-20 - k) * FP) : k \in 0..MaxAttenuation }

CoordinateInputs == { -500, 0, 5, 160, 320, 1000 }

\* python server.py: the module body runs.
ModuleStartup ==
    /\ startup.pc = "import"
    /\ startup' = module_body
    /\ UNCHANGED << pipeline_vars, bt, call >>

\* TrilaterationController(bp_1, bp_2, bp_3, ..., path_loss_exponent)
CalcConstruct ==
    /\ call.op = "none"
    /\ \E bps \in BaseStationInputs, ple \in ExponentInputs :
          call' = [op |-> "init", obj |-> TrilaterationController_init(bps, ple)]
    /\ UNCHANGED << pipeline_vars, bt, startup >>

\* obj.get_distance(a, node) and obj.get_distance(b, node), a < b, on an object
\* just built (the functions of calc.py keep no state between calls)
CalcGetDistance ==
    /\ call.op = "init"
    /\ \E node \in Receivers, a \in RssiInputs, b \in RssiInputs :
          /\ a.v < b.v
          /\ call' = [op |-> "get_distance", obj |-> call.obj, node |-> node,
                      a |-> a, b |-> b,
                      da |-> get_distance_with(call.obj.ple, a, node),
                      db |-> get_distance_with(call.obj.ple, b, node)]
    /\ UNCHANGED << pipeline_vars, bt, startup >>

\* obj.__scale_coordinates(x, y), as get_position calls it on the solver's output
CalcScale ==
    /\ call.op = "init"
    /\ \E x \in CoordinateInputs, y \in CoordinateInputs :
          call' = [op |-> "scale", obj |-> call.obj, x |-> x, y |-> y,
                   out |-> scale_coordinates_with(call.obj.bp, x, y)]
    /\ UNCHANGED << pipeline_vars, bt, startup >>

\* The exact distance between two points (the arguments used have one that is
\* a whole number of units).
ExactDistance(p, q) ==
    LET dx == IF p[1] >= q[1] THEN p[1] - q[1] ELSE q[1] - p[1]
        dy == IF p[2] >= q[2] THEN p[2] - q[2] ELSE q[2] - p[2]
    IN  CHOOSE r \in 0..(dx + dy) : r * r = dx * dx + dy * dy

\* Three base stations at the corners of a 6-by-8 right triangle of size k and
\* a target at the middle of its long side or at the fourth corner of its
\* rectangle, in tenths of a millimetre: 0.6 mm to 30 mm wide.
TrilaterateInputs ==
    { [bp |-> << <<0, 0>>, <<6 * k, 0>>, <<0, 8 * k>> >>, target |-> <<3 * k * j, 4 * k * j>>]
      : k \in { 1, 2, 10, 50 }, j \in { 1, 2 } }

\* TrilaterationController(bp_1, bp_2, bp_3).trilaterate(d1, d2, d3) with the
\* exact distances of a target; an iteration that runs is taken to end at the
\* target.
CalcTrilaterate ==
    /\ call.op = "none"
    /\ \E in \in TrilaterateInputs :
          LET d == [i \in 1..3 |-> ExactDistance(in.bp[i], in.target)]
          IN  call' = [op |-> "trilaterate", bp |-> in.bp, target |-> in.target, d |-> d,
                       out |-> trilaterate_from_guess(in.bp, d, in.target)]
    /\ UNCHANGED << pipeline_vars, bt, startup >>

NextCalc ==
    \/ ModuleStartup
    \/ CalcConstruct
    \/ CalcGetDistance
    \/ CalcScale
    \/ CalcTrilaterate

SpecCalc == InitCalc /\ [][NextCalc]_vars

\* ------------------------------------- filter.py: one filter, one measurement
\* apply_kalman_filter(kf, z): the calls of its body, in order, on filter k.
RECURSIVE RunFilterOps(_, _, _)
RunFilterOps(k, z, todo) ==
    IF todo = << >> THEN k
    ELSE RunFilterOps(IF Head(todo) = "predict" THEN Predict(k) ELSE Update(k, z),
                      z, Tail(todo))

\* The measurement fed again and again: 0 to -100 dBm in steps of 10 dB.
MeasurementInputs == { Num(-10 * j * FP) : j \in 0..10 }

\* kf = initialize_kalman_filter(); n counts the calls, prev is the filter
\* before the last call.
InitFilter ==
    /\ InitCommon
    /\ env = NoBroker
    /\ startup = Entered
    /\ \E z \in MeasurementInputs :
          call = [op |-> "filter", m |-> z, n |-> 0, k |-> initialize_kalman_filter,
                  prev |-> initialize_kalman_filter]

\* apply_kalman_filter(kf, m)
FilterApply ==
    /\ call.op = "filter"
    /\ call.n < MaxApply
    /\ call' = [call EXCEPT !.n = @ + 1, !.prev = call.k,
                            !.k = RunFilterOps(call.k, call.m, apply_kalman_filter)]
    /\ UNCHANGED << pipeline_vars, bt, startup >>

NextFilter == FilterApply

SpecFilter == InitFilter /\ [][NextFilter]_vars

\* ---------------------------------- controller.py: plot called again and again
\* The positions plotted.
PlotInputs == { <<0, 22>>, <<16, 10>>, <<31, 31>> }

\* bt = Controller(address): pc is the caller's position in plot, n counts the
\* calls, mode_on_raised remembers that an image-mode command was refused.
InitPlot ==
    /\ InitCommon
    /\ env = NoBroker
    /\ startup = Entered
    /\ call = [op |-> "plot", pc |-> "idle", n |-> 0, pos |-> <<0, 0>>,
               mode_on_raised |-> FALSE]

\* await bt.plot(x, y) is entered.
PlotCall ==
    /\ call.op = "plot"
    /\ call.pc = "idle"
    /\ call.n < MaxPlots
    /\ \E p \in PlotInputs : call' = [call EXCEPT !.pc = "ensure", !.n = @ + 1, !.pos = p]
    /\ UNCHANGED << pipeline_vars, bt, startup >>

\* Lines 75-77; a send that raises ends the call with that exception.
PlotEnsureStarted ==
    /\ call.op = "plot"
    /\ call.pc = "ensure"
    /\ \E o \in SendOutcomes :
          /\ bt' = plot_ensure_started(bt, o)
          /\ call' = IF bt.started \/ o = "sent" THEN [call EXCEPT !.pc = "image"]
                     ELSE [call EXCEPT !.pc = "idle", !.mode_on_raised = TRUE]
    /\ UNCHANGED << pipeline_vars, startup >>

\* Lines 80-84; the call ends, with or without an exception.
PlotSendImage ==
    /\ call.op = "plot"
    /\ call.pc = "image"
    /\ \E o \in SendOutcomes : bt' = plot_send_image(bt, call.pos, o)
    /\ call' = [call EXCEPT !.pc = "idle"]
    /\ UNCHANGED << pipeline_vars, startup >>

NextPlot ==
    \/ PlotCall
    \/ PlotEnsureStarted
    \/ PlotSendImage

SpecPlot == InitPlot /\ [][NextPlot]_vars

\* -------------------------------------------------------------- properties
\* Receiver i has delivered a sample through on_message (the test entries
\* carry time 0, a sender's clock starts at 1).
HasReported(i) == \E k \in 1..Len(arrived[i]) : arrived[i][k].time > 0

SolverFails ==
    proc_pc = "solve" /\ Raised \in get_position(rssi_loc[1], rssi_loc[2], rssi_loc[3])

ReadPc(i) == IF i = 1 THEN "read1" ELSE IF i = 2 THEN "read2" ELSE "read3"

Handling == mqtt_pc \in { "filter", "append" }

LastK(s, k) == IF Len(s) <= k THEN s ELSE SubSeq(s, Len(s) - k + 1, Len(s))

\* C1: no position is computed or sent to the display before each of the three
\* receivers has delivered at least one sample through on_message.
C1_NoEstimateBeforeAllReported ==
    (ticks > 0 \/ proc_pc = "plot" \/ Len(plotted) > 0)
        => \A i \in Receivers : HasReported(i)

\* C2: when the solver fails on a tick, the processing thread does not end: the
\* tick goes on to the display with the position of the previous tick.
C2_SolverFailureHeld ==
    [][(SolverFails /\ proc_pc' # proc_pc)
         => (proc_pc' = "plot" /\ position' = position)]_vars

\* C3: each receiver's history holds at most MAXLEN entries, in arrival order,
\* and they are the newest ones: of everything appended so far, exactly the last
\* MAXLEN (the oldest go first, the new entry is last).
C3_BoundedFifo ==
    \A i \in Receivers :
        /\ Len(receiver[i]) \in 0..MAXLEN
        /\ receiver[i] = LastK(arrived[i], MAXLEN)
        /\ \A k \in 1..(Len(receiver[i]) - 1) :
              receiver[i][k].time < receiver[i][k + 1].time

C3_Witness ==
    /\ Len(arrived[1]) > MAXLEN + 1
    /\ Len(receiver[1]) = MAXLEN
    /\ receiver[1][1].time > 1
    /\ receiver[1][MAXLEN].time = Len(arrived[1]) - 1

\* C4: an accepted sample (one that reaches the append) has had exactly one
\* predict followed by exactly one update on its receiver's filter, and between
\* the two the only write to that filter is that update, made by the MQTT
\* thread, whatever the processing thread and the main thread do meanwhile.
C4_PredictThenUpdate ==
    [][/\ mqtt_pc' = "append" => ops' = << "predict", "update" >>
       /\ \A i \in Receivers :
            (mqtt_pc = "filter" /\ ops # << >> /\ response.topic = i /\ kf'[i] # kf[i])
              => /\ ops = << "predict" >>
                 /\ ops' = << "predict", "update" >>
                 /\ kf'[i] = Update(kf[i], response.rssi)
                 /\ UNCHANGED << proc_vars, main_vars >>]_vars

C4_Witness ==
    /\ mqtt_pc = "append"
    /\ ops = << "predict", "update" >>
    /\ kf[response.topic].x = response.filtered_rssi
    /\ InTick
    /\ main_pc = "show"

\* C5: receiver i's filter and history change only in a step of on_message
\* handling a sample addressed to receiver i: a sample for another receiver, a
\* step of process_values and a step of the main thread (get_updated_data
\* included) leave them as they are.
C5_ReceiverStateFrame ==
    [][\A i \in Receivers :
          (kf'[i] # kf[i] \/ receiver'[i] # receiver[i])
            => /\ Handling
               /\ response.topic = i
               /\ UNCHANGED << proc_vars, main_vars >>]_vars

C5_Witness ==
    /\ HasReported(1)
    /\ kf[1] # initialize_kalman_filter
    /\ kf[2] = initialize_kalman_filter /\ receiver[2] = << TestEntry >>
    /\ kf[3] = initialize_kalman_filter /\ receiver[3] = << TestEntry >>
    /\ env.left = 0
    /\ Len(plotted) > 0
    /\ main_pc = "show"

\* C6: a malformed message (another topic, a payload that does not parse, a
\* time or rssi that is absent or unusable) is dropped: no step of its handling
\* changes any receiver's filter (x and P) or history.
C6_MalformedDropped ==
    [][((mqtt_pc = "idle" /\ mqtt_pc' = "idle")
          \/ (Handling /\ response.rssi.kind \notin { "num", "nan" }))
         => (kf' = kf /\ receiver' = receiver)]_vars

\* C7: the value an estimation tick reads for receiver i equals the current
\* estimate x of receiver i's filter at the moment of the read.
C7_TickReadsFilterState ==
    [][\A i \in Receivers :
          (proc_pc = ReadPc(i) /\ proc_pc' # proc_pc) => rssi_loc'[i] = kf[i].x]_vars

\* C8: when the process has ended after a KeyboardInterrupt (the only setter of
\* the stop flag), both the processing thread and the MQTT thread had ended and
\* been joined, and the Bluetooth display had been released.
C8_ShutdownJoinsBoth ==
    (main_pc = "exited" /\ stop_threads)
        => /\ proc_pc \in { "done", "dead" }
           /\ mqtt_pc = "stopped"
           /\ ~bt_connected

\* C9: the process never ends while the processing thread is in the middle of a
\* tick or the MQTT thread in the middle of on_message.
C9_NoExitMidFlight ==
    main_pc = "exited" => (~InTick /\ ~Handling)

\* C10: every tick started (all three receivers have data) produces a position,
\* whether or not a sample arrived since the tick before: a tick that has begun
\* goes from its reads through the solver to the display call.
C10_EveryTickProduces ==
    [][(proc_pc \in { "read1", "read2", "read3", "solve" } /\ proc_pc' # proc_pc)
         => proc_pc' \in { "read2", "read3", "solve", "plot" }]_vars

\* C11: ingestion is never blocked by estimation or output: while the
\* processing thread is inside a tick, inside the display send or sleeping, the
\* MQTT thread can take the next step of on_message, from accepting a message
\* to the append that puts the filtered sample in the receiver's history.
C11_IngestionNeverBlocked ==
    (main_pc # "exited" /\ (InTick \/ proc_pc = "sleep"))
        => /\ (mqtt_pc = "idle" /\ client_state = "connected" /\ env.left > 0)
                => ENABLED (\E m \in GoodMessages : OnMessageBegin(m))
           /\ mqtt_pc = "filter" => ENABLED OnMessageFilter
           /\ mqtt_pc = "append"
                => ENABLED (OnMessageAppend
                             /\ receiver'[response.topic] # receiver[response.topic])

C11_Witness ==
    /\ proc_pc = "plot_image"
    /\ mqtt_pc = "append"
    /\ response.filtered_rssi = kf[response.topic].x
    /\ \E i \in Receivers : HasReported(i)

\* C12: when the display's plot call raises during a tick, the fault is
\* contained: the processing thread does not end, the tick goes on to its sleep
\* and later ticks run.
C12_DisplayFaultContained ==
    [][(proc_pc \in { "plot", "plot_image" } /\ proc_pc' # proc_pc /\ bt'.sent = bt.sent)
         => proc_pc' = "sleep"]_vars

\* C20: the event loop is never driven by two threads at once and nothing is
\* sent to the display after the Bluetooth disconnect: the handler reaches
\* loop.run_until_complete(bt.disconnect()) only once the processing thread,
\* the only other caller of loop.run_until_complete, has ended.
C20_DisconnectAfterProcessingEnded ==
    [][/\ (main_pc' = "h_bt" \/ ~bt_connected') => proc_pc' \in { "done", "dead" }
       /\ bt'.sent # bt.sent => (bt_connected /\ main_pc # "h_bt")]_vars

C20_Witness ==
    /\ ~bt_connected
    /\ exit_how = "exit0"
    /\ proc_pc = "done"
    /\ Len(bt.sent) > 1

\* C13: a TrilaterationController cannot be built with a path-loss exponent
\* that is not positive: no object with such an exponent exists, so none
\* reaches a get_distance call.
C13_ExponentCheckedAtConstruction ==
    call.op \in { "init", "get_distance", "scale" } => call.obj.ple > 0

\* C14: for every solver output (x, y) and every three base stations the scaler
\* returns, without an error, two integers in 0 .. GRID_SCALE - 1.
C14_ScalerTotalAndBounded ==
    call.op = "scale"
        => /\ call.out.ok
           /\ call.out.pos[1] \in 0..(GRID_SCALE - 1)
           /\ call.out.pos[2] \in 0..(GRID_SCALE - 1)

\* C16: trilaterate, given the exact distances from a target to three
\* non-collinear base stations, returns the target.
C16_ExactRoundTrip ==
    call.op = "trilaterate" => call.out = call.target

\* C17: with a positive path-loss exponent get_distance is strictly decreasing
\* in rssi, for each of the three nodes: a < b gives
\* get_distance(a, node) > get_distance(b, node).
C17_DistanceDecreasesWithRssi ==
    (call.op = "get_distance" /\ call.obj.ple > 0 /\ call.a.v < call.b.v)
        => /\ call.da.kind = "num" /\ call.db.kind = "num"
           /\ call.da.v > call.db.v

C17_Witness ==
    /\ call.op = "get_distance"
    /\ call.obj.ple = PATH_LOSS_EXPONENT_X10
    /\ call.node = 2
    /\ call.a = Num(-61 * FP) /\ call.b = Num(-60 * FP)
    /\ call.da.v > call.db.v /\ call.db.v > 0

\* C18: with the pixel display enabled the module body registers the scaled
\* coordinates of the three receivers as the display's beacons and reaches
\* run(), which starts the two threads.
C18_StartupRegistersBeacons ==
    startup.pc # "import" => (startup.pc = "run" /\ startup.beacons = ScaledBeacons)

Abs(n) == IF n < 0 THEN -n ELSE n

C19_ModeOnOnceAndFirst ==
    call.op = "plot"
        => /\ bt.started = (Len(bt.sent) > 0)
           /\ \A k \in 1..Len(bt.sent) : (bt.sent[k].cmd = "mode_on") = (k = 1)
           /\ call.pc = "image" => bt.started

C19_Witness ==
    /\ call.op = "plot"
    /\ call.mode_on_raised
    /\ call.n = MaxPlots
    /\ call.pc = "idle"
    /\ Len(bt.sent) = MaxPlots
    /\ bt.sent[1] = ModeOnCommand
    /\ bt.sent[2].cmd = "image"

====
